---- MODULE Spec2Model ----
(***************************************************************************)
(* Model of the semantic transcript index of src/Youtube/server_3.py:      *)
(* the FAISS index and video_store pair, the tools that extend and query   *)
(* them (index_video, semantic_search, fetch_and_index_transcript,         *)
(* bulk_index_channel_videos) and the collaborators they call.             *)
(*                                                                         *)
(* Python values are modelled as follows.  A dict is a record; the test    *)
(* `"error" in d` is `"error" \in DOMAIN d`.  A list is a sequence.  FAISS *)
(* ids are 0-based as in the library, so id i is position i + 1 of the     *)
(* sequences `index` and `video_store`.  None is the string "None", and a   *)
(* languages argument left at None is the one-element sequence <<None>>,   *)
(* so that the field holds a sequence in every state.                      *)
(* The server runs its synchronous tools one at a time, so one tool call   *)
(* is one step, except the loop of bulk_index_channel_videos, which takes  *)
(* one step per candidate while every other tool is disabled, and except   *)
(* index_video and fetch_and_index_transcript called as tools, whose       *)
(* index.add and video_store.append are two steps (pc = "appending" in     *)
(* between).  A finished call leaves its result in `ret` (pc = "done")     *)
(* until the server has sent the response and waits for the next request   *)
(* (pc = "idle").                                                          *)
(*                                                                         *)
(* Specifications.  Spec: the tools of server_3.py.  SpecHeartbeat: Spec   *)
(* with the steps of the daemon heartbeat thread, which are weakly fair.   *)
(* SpecBulkFair: Spec with weakly fair steps of the bulk loop and of its   *)
(* return.  SpecWithServer2: Spec with the bulk tool of                    *)
(* src/Youtube/server_2.py, which ingests every candidate without an       *)
(* availability check.  SpecScore: the score computation of                *)
(* semantic_search applied to pairs of distances.                          *)
(***************************************************************************)
EXTENDS Integers, Sequences, FiniteSets, TLC

VARIABLES
    index,          \* faiss.IndexFlatL2: the stored vectors, in id order
    video_store,    \* the metadata list, parallel to index
    ret,            \* what the tool function that ran last returned (or raised)
    calls,          \* the collaborator and tool invocations of the current tool call
    pc,             \* "idle", "appending", "bulk_loop" (inside
                    \* bulk_index_channel_videos) or "done"
    videos,         \* bulk: the candidate list obtained from discovery
    pos,            \* bulk: number of candidates the loop has processed
    indexed_count,  \* bulk: local counter
    failed_count,   \* bulk: local counter
    results,        \* bulk: local list of per-candidate entries
    pre,            \* the index/video_store pair when the current tool call began
    hb              \* the heartbeat thread: "print" (about to write its line)
                    \* or "sleep" (inside time.sleep(30))

vars == <<index, video_store, ret, calls, pc, videos, pos, indexed_count,
          failed_count, results, pre, hb>>

-----------------------------------------------------------------------------
(* Bounds of the model *)

\* the index is never grown beyond this many entries
MaxIndexed == 2
\* the discovery collaborator returns at most this many candidates
MaxVideos == 3
\* bulk_index_channel_videos is started on an index of at most this many entries
MaxBulkStart == 1
\* top_k ranges over -1 .. MaxTopK
MaxTopK == 3
\* number of components of an embedding (384 in the program)
Dim == 2

-----------------------------------------------------------------------------
(* Values *)

None == "None"

\* languages=None.  The argument is None or a list of language codes; a string
\* and a list are not comparable, so None in that position is written as a
\* list that holds no language code.
NoLanguages == <<None>>

Titles == {"T", "U"}

\* transcript and query texts handed to index_video and semantic_search
Texts == {"hello world", "python basics"}

TopKs == (0 - 1) .. MaxTopK

\* semantic_search(query, top_k: int = 3, ...)
DefaultTopK == 3

Min(a, b) == IF a <= b THEN a ELSE b

-----------------------------------------------------------------------------
(* EmbeddingEncoder: model.encode([text]).  A deterministic stub of the    *)
(* sentence encoder: component i is a fixed function of the text.          *)

Encode(text) == [i \in 1 .. Dim |-> (Len(text) * i) % 5]

\* what one call of the encoder can do
EncodeOutcomes == {"ok", "raises"}

-----------------------------------------------------------------------------
(* VectorIndex: faiss.IndexFlatL2 *)

RECURSIVE SumSq(_, _, _)
SumSq(u, v, i) ==
    IF i = 0 THEN 0
    ELSE (u[i] - v[i]) * (u[i] - v[i]) + SumSq(u, v, i - 1)

\* squared Euclidean distance, the metric of IndexFlatL2
L2Sqr(u, v) == SumSq(u, v, Dim)

\* a variant that overwrites the newest stored vector once the index is not empty
IndexAdd_Overwrite(ix, embedding) ==
    IF Len(ix) = 0 THEN <<embedding>> ELSE [ix EXCEPT ![Len(ix)] = embedding]

\* a variant that puts the new vector in front of the stored ones
IndexAdd_Front(ix, embedding) == <<embedding>> \o ix

\* a variant that adds the vector twice (a batch of two rows)
IndexAdd_Twice(ix, embedding) == Append(Append(ix, embedding), embedding)

\* index.add(np.array(embedding)): one vector appended, its id is the old ntotal
IndexAdd(ix, embedding) == Append(ix, embedding)

\* distance reported for a padding entry (id -1): the largest float32, here the
\* largest 32-bit integer; no stored vector is that far from a query
FLT_MAX == 2147483647

\* distance of the stored vector with 0-based id from the query
DistOf(ix, q, id) == IF id < 0 THEN FLT_MAX ELSE L2Sqr(ix[id + 1], q)

\* The id arrays index.search(q, k) can return for k > 0: the Min(k, ntotal)
\* nearest ids in non-decreasing distance (the order of equal distances is
\* left to the library), padded with -1 up to length k.
FaissSearch(ix, q, k) ==
    LET n == Len(ix)
        m == Min(k, n)
        ids == 0 .. (n - 1)
        ranked == { s \in [1 .. m -> ids] :
                      /\ \A a, b \in 1 .. m : a /= b => s[a] /= s[b]
                      /\ \A a, b \in 1 .. m :
                            a < b => L2Sqr(ix[s[a] + 1], q) <= L2Sqr(ix[s[b] + 1], q)
                      /\ \A a \in 1 .. m : \A x \in ids :
                            (\A b \in 1 .. m : s[b] /= x)
                                => L2Sqr(ix[s[a] + 1], q) <= L2Sqr(ix[x + 1], q) }
    IN  { [j \in 1 .. k |-> IF j <= m THEN s[j] ELSE 0 - 1] : s \in ranked }

-----------------------------------------------------------------------------
(* SimilarityScorer: round((1 / (1 + D)) * 100, 2), in hundredths *)

\* 100 percent, in hundredths (two decimals kept by round(.., 2))
ScoreScale == 10000

\* round-half-to-even of num / den
RoundDiv(num, den) ==
    LET q == num \div den
        r == num % den
    IN  IF 2 * r < den THEN q
        ELSE IF 2 * r > den THEN q + 1
        ELSE IF q % 2 = 0 THEN q ELSE q + 1

\* a variant that cuts the quotient off after two decimals
Similarity_Truncated(num, den) == (ScoreScale * den) \div (den + num)

\* round((1 / (1 + D)) * 100, 2) for the distance D = num / den
Similarity(num, den) == RoundDiv(ScoreScale * den, den + num)

\* a variant that forgets the factor 100
SimilarityScore_Fraction(d) ==
    IF d = FLT_MAX THEN 0 ELSE RoundDiv(ScoreScale \div 100, 1 + d)

\* the score of a distance the index returned; the distances between the
\* embeddings of this model are whole numbers
SimilarityScore(d) == IF d = FLT_MAX THEN 0 ELSE Similarity(d, 1)

-----------------------------------------------------------------------------
(* MetadataStore: the Python list video_store *)

\* video_store[idx] with Python's indexing: a negative idx counts from the end
StoreAt(store, idx) ==
    IF idx >= 0 THEN store[idx + 1] ELSE store[Len(store) + idx + 1]

\* dict.get("url"): None when the record has no url
GetUrl(rec) == IF "url" \in DOMAIN rec THEN rec.url ELSE None

-----------------------------------------------------------------------------
(* Tool results.  A tool call ends by returning a dict, returning a list,  *)
(* or with an exception that leaves the tool function.                     *)

ReturnDict(tool, args, d) == [tool |-> tool, args |-> args, kind |-> "dict", val |-> d]
ReturnList(tool, args, l) == [tool |-> tool, args |-> args, kind |-> "list", val |-> l]
Raised(tool, args, e) == [tool |-> tool, args |-> args, kind |-> "raise", val |-> e]

\* Python's `"error" in result` on what a tool returned
IsError(r) == r.kind = "dict" /\ "error" \in DOMAIN r.val

Snapshot == [index |-> index, video_store |-> video_store]

\* A tool call that has run index.add and has not yet run video_store.append:
\* the record it is about to append and the dict it will return.
Appending(tool, args, record, result) ==
    [tool |-> tool, args |-> args, kind |-> "appending",
     val |-> [record |-> record, result |-> result]]

\* a variant of the host that hands a request to a tool function while another
\* tool function is between its two appends (tool functions on worker threads)
CanStart_Threaded == pc \in {"idle", "appending"}

\* A tool function is a plain def: mcp.run() calls it on the thread of its
\* event loop and takes the next request only after it has returned.
CanStart == pc = "idle"

\* video_store.append(...) of index_video and of fetch_and_index_transcript,
\* the statement after index.add(...), followed by the return
video_store_append ==
    /\ pc = "appending"
    /\ video_store' = Append(video_store, ret.val.record)
    /\ calls' = IF ret.tool = "fetch_and_index_transcript"
                THEN Append(calls, [call |-> "video_store.append",
                                    video_id |-> ret.args.video_id])
                ELSE calls
    /\ ret' = ReturnDict(ret.tool, ret.args, ret.val.result)
    /\ pc' = "done"
    /\ UNCHANGED <<index, pre, videos, pos, indexed_count, failed_count, results>>

-----------------------------------------------------------------------------
(* index_video(title, transcript, video_id) *)

index_video(title, transcript, video_id, enc) ==
    LET args == [title |-> title, transcript |-> transcript, video_id |-> video_id]
    IN  /\ CanStart
        /\ Len(index) < MaxIndexed
        /\ pre' = Snapshot
        /\ calls' = <<[call |-> "encode", text |-> transcript, outcome |-> enc]>>
        /\ IF enc = "raises"
           THEN /\ ret' = Raised("index_video", args, "encode")
                /\ pc' = "done"
                /\ UNCHANGED <<index, video_store>>
           ELSE /\ index' = IndexAdd(index, Encode(transcript))
                /\ ret' = Appending("index_video", args,
                        [title |-> title, transcript |-> transcript,
                         video_id |-> video_id],
                        [status |-> "indexed", title |-> title])
                /\ pc' = "appending"
                /\ UNCHANGED video_store
        /\ UNCHANGED <<videos, pos, indexed_count, failed_count, results>>

-----------------------------------------------------------------------------
(* semantic_search(query, top_k, return_full_transcript) *)

\* k handed to index.search
SearchK(top_k, store) == Min(top_k, Len(store))

\* one entry of the result list, for neighbour id idx at distance d
SearchHit(store, idx, d, return_full_transcript) ==
    LET rec == StoreAt(store, idx)
        video_data == [title |-> rec.title, video_id |-> rec.video_id,
                       url |-> GetUrl(rec), similarity_score |-> SimilarityScore(d)]
    IN  IF return_full_transcript
        THEN [title |-> video_data.title, video_id |-> video_data.video_id,
              url |-> video_data.url, similarity_score |-> video_data.similarity_score,
              transcript |-> rec.transcript]
        ELSE video_data

\* a variant that builds the list with the last neighbour first
RECURSIVE SearchResults_LastFirst(_, _, _, _, _, _)
SearchResults_LastFirst(ix, store, q, I, j, return_full_transcript) ==
    IF j = 0 THEN << >>
    ELSE LET rest == SearchResults_LastFirst(ix, store, q, I, j - 1,
                                             return_full_transcript)
         IN  IF I[j] < Len(store)
             THEN <<SearchHit(store, I[j], DistOf(ix, q, I[j]),
                              return_full_transcript)>> \o rest
             ELSE rest

\* the loop over I[0]: entries with idx < len(video_store) are kept, in order
RECURSIVE SearchResults(_, _, _, _, _, _)
SearchResults(ix, store, q, I, j, return_full_transcript) ==
    IF j = 0 THEN << >>
    ELSE LET rest == SearchResults(ix, store, q, I, j - 1, return_full_transcript)
         IN  IF I[j] < Len(store)
             THEN Append(rest, SearchHit(store, I[j], DistOf(ix, q, I[j]),
                                         return_full_transcript))
             ELSE rest

\* index.search(x, k) with k <= 0.  The faiss wrapper asserts k > 0, so the
\* call raises; releases before that assertion allocate a (1, k) result,
\* which raises for k < 0 and is an empty array for k = 0.
NonPositiveKOutcomes(k) == IF k = 0 THEN {"raises", "empty"} ELSE {"raises"}

\* a variant without the guard
NotIndexedYet_Never(store) == FALSE

\* `if len(video_store) == 0`: nothing has been indexed
NotIndexedYet(store) == Len(store) = 0

semantic_search(query, top_k, return_full_transcript, enc) ==
    LET args == [query |-> query, top_k |-> top_k,
                 return_full_transcript |-> return_full_transcript]
        k == SearchK(top_k, video_store)
        q == Encode(query)
    IN  /\ CanStart
        /\ pre' = Snapshot
        /\ IF NotIndexedYet(video_store)
           THEN /\ calls' = << >>
                /\ ret' = ReturnDict("semantic_search", args,
                        [error |-> "No videos indexed yet. Use index_video first."])
           ELSE IF enc = "raises"
           THEN /\ calls' = <<[call |-> "encode", text |-> query, outcome |-> enc]>>
                /\ ret' = Raised("semantic_search", args, "encode")
           ELSE IF k <= 0
           THEN \E o \in NonPositiveKOutcomes(k) :
                /\ calls' = <<[call |-> "encode", text |-> query, outcome |-> enc],
                              [call |-> "index.search", k |-> k, outcome |-> o]>>
                /\ ret' = IF o = "raises"
                          THEN Raised("semantic_search", args, "index.search")
                          ELSE ReturnList("semantic_search", args, << >>)
           ELSE \E I \in FaissSearch(index, q, k) :
                /\ calls' = <<[call |-> "encode", text |-> query, outcome |-> enc],
                              [call |-> "index.search", k |-> k, outcome |-> I]>>
                /\ ret' = ReturnList("semantic_search", args,
                        SearchResults(index, video_store, q, I, Len(I),
                                      return_full_transcript))
        /\ pc' = "done"
        /\ UNCHANGED <<index, video_store, videos, pos, indexed_count,
                       failed_count, results>>

-----------------------------------------------------------------------------
(* Collaborators.  Each call of a collaborator has an outcome that the     *)
(* caller cannot control; the actions draw it from the sets below.         *)

\* the channel's uploads, newest first, as the discovery collaborator lists them
Catalogue == <<"A", "B", "C", "D", "E">>

VideoTitle(video_id) == "title of " \o video_id

VideoUrl(video_id) == "https://www.youtube.com/watch?v=" \o video_id

\* youtube.videos().list(...).execute() inside get_video_details
DetailsOutcomes == {"ok", "no_items", "raises"}

\* get_video_details(video_id): never raises, an error is a dict with "error"
get_video_details(video_id, det) ==
    IF det = "raises" THEN [error |-> "HttpError"]
    ELSE IF det = "no_items" THEN [error |-> "Video not found"]
    ELSE [title |-> VideoTitle(video_id), url |-> VideoUrl(video_id)]

\* one caption track as the captioning collaborator lists it; fetch is what
\* fetching its text does, segments the text lines it yields
Track(code, generated, fetch, segments) ==
    [language_code |-> code, is_generated |-> generated, fetch |-> fetch,
     segments |-> segments]

\* The states of the captioning collaborator for one video at one call:
\* listing is "ok" or the exception list_transcripts raises; tracks are in the
\* order the collaborator iterates them (manually created first).
CaptionWorlds ==
    { [listing |-> "ok", tracks |-> <<Track("en", FALSE, "ok", <<"hello", "world">>)>>],
      [listing |-> "ok", tracks |-> <<Track("en", TRUE, "ok", <<"python", "basics">>)>>],
      [listing |-> "ok", tracks |-> <<Track("fr", FALSE, "ok", <<"bonjour">>)>>],
      [listing |-> "ok", tracks |-> << >>],
      [listing |-> "ok", tracks |-> <<Track("en", FALSE, "raises", << >>),
                                      Track("en", TRUE, "ok", <<"python", "basics">>)>>],
      [listing |-> "ok", tracks |-> <<Track("en", FALSE, "raises", << >>)>>],
      [listing |-> "TranscriptsDisabled", tracks |-> << >>],
      [listing |-> "VideoUnavailable", tracks |-> << >>] }

\* str(e) of the exceptions of the captioning library: the cause message
ExcStr(exc) ==
    CASE exc = "TranscriptsDisabled" -> "Subtitles are disabled for this video"
      [] exc = "NoTranscriptFound" ->
            "No transcripts were found for any of the requested language codes"
      [] exc = "VideoUnavailable" -> "The video is no longer available"
      [] OTHER -> "Could not retrieve a transcript"

\* the pairs <<needle, message>> of modelled strings with needle a substring
\* of message: no cause message contains the name of its exception class
SubstringFacts == { <<"Subtitles are disabled", ExcStr("TranscriptsDisabled")>> }

\* Python's `needle in error_msg`
InStr(needle, msg) == <<needle, msg>> \in SubstringFacts

-----------------------------------------------------------------------------
(* check_transcript_availability(video_id) *)

RECURSIVE TrackInfos(_, _)
TrackInfos(tracks, j) ==
    IF j = 0 THEN << >>
    ELSE Append(TrackInfos(tracks, j - 1),
                [language_code |-> tracks[j].language_code,
                 is_generated |-> tracks[j].is_generated])

\* a variant that reports transcripts whenever the listing itself succeeded
check_transcript_availability_Listed(video_id, world) ==
    IF video_id = None
    THEN [error |-> "You must provide a video_id to check transcript availability"]
    ELSE IF world.listing /= "ok"
    THEN [video_id |-> video_id, has_transcripts |-> FALSE,
          error |-> ExcStr(world.listing)]
    ELSE LET available_transcripts == TrackInfos(world.tracks, Len(world.tracks))
         IN  [video_id |-> video_id,
              has_transcripts |-> TRUE,
              available_transcripts |-> available_transcripts,
              count |-> Len(available_transcripts)]

check_transcript_availability(video_id, world) ==
    IF video_id = None
    THEN [error |-> "You must provide a video_id to check transcript availability"]
    ELSE IF world.listing /= "ok"
    THEN [video_id |-> video_id, has_transcripts |-> FALSE,
          error |-> ExcStr(world.listing)]
    ELSE LET available_transcripts == TrackInfos(world.tracks, Len(world.tracks))
         IN  [video_id |-> video_id,
              has_transcripts |-> Len(available_transcripts) > 0,
              available_transcripts |-> available_transcripts,
              count |-> Len(available_transcripts)]

\* a variant that takes every availability result without an error for a video
\* with transcripts
HasTranscripts_NoError(availability) == ~("error" \in DOMAIN availability)

\* availability.get("has_transcripts", False)
HasTranscripts(availability) ==
    IF "has_transcripts" \in DOMAIN availability
    THEN availability.has_transcripts ELSE FALSE

-----------------------------------------------------------------------------
(* get_video_transcript(video_id, languages) *)

\* TextFormatter.format_transcript: the lines joined by newlines
RECURSIVE FormatTranscript(_, _)
FormatTranscript(segments, j) ==
    IF j = 0 THEN ""
    ELSE IF j = 1 THEN segments[1]
    ELSE FormatTranscript(segments, j - 1) \o "\n" \o segments[j]

\* positions of the tracks of one kind in one of the language codes
Matching(tracks, codes, generated) ==
    { j \in 1 .. Len(tracks) :
        /\ tracks[j].is_generated = generated
        /\ \E c \in 1 .. Len(codes) : codes[c] = tracks[j].language_code }

FirstOf(S) == CHOOSE j \in S : \A x \in S : j <= x

\* fetching one track: its segments, or the exception the fetch raises
FetchTrack(track) ==
    IF track.fetch = "ok" THEN [ok |-> TRUE, segments |-> track.segments]
    ELSE [ok |-> FALSE, exc |-> "CouldNotRetrieveTranscript"]

\* find_transcript(codes): per requested code, the manually created track before
\* the generated one
RECURSIVE FindTranscript(_, _, _)
FindTranscript(tracks, codes, c) ==
    IF c > Len(codes) THEN 0
    ELSE LET manual == Matching(tracks, <<codes[c]>>, FALSE)
             generated == Matching(tracks, <<codes[c]>>, TRUE)
         IN  IF manual /= {} THEN FirstOf(manual)
             ELSE IF generated /= {} THEN FirstOf(generated)
             ELSE FindTranscript(tracks, codes, c + 1)

\* a variant that, without languages, takes the first listed track at once
ResolveTranscript_FirstListed(languages, world) ==
    IF world.listing /= "ok" THEN [ok |-> FALSE, exc |-> world.listing]
    ELSE IF languages = NoLanguages
    THEN IF Len(world.tracks) > 0 THEN FetchTrack(world.tracks[1])
         ELSE [ok |-> FALSE, exc |-> "no_tracks"]
    ELSE LET found == FindTranscript(world.tracks, languages, 1)
         IN  IF found = 0 THEN [ok |-> FALSE, exc |-> "NoTranscriptFound"]
             ELSE FetchTrack(world.tracks[found])

\* a variant without the inner handlers: the failure of fetching the track a
\* tier found reaches the outer handler
ResolveTranscript_FetchErrorReturned(languages, world) ==
    IF world.listing /= "ok" THEN [ok |-> FALSE, exc |-> world.listing]
    ELSE IF languages = NoLanguages
    THEN LET tracks == world.tracks
             manual == Matching(tracks, <<"en">>, FALSE)
             generated == Matching(tracks, <<"en">>, TRUE)
         IN  IF manual /= {} THEN FetchTrack(tracks[FirstOf(manual)])
             ELSE IF generated /= {} THEN FetchTrack(tracks[FirstOf(generated)])
             ELSE IF Len(tracks) > 0 THEN FetchTrack(tracks[1])
             ELSE [ok |-> FALSE, exc |-> "no_tracks"]
    ELSE LET found == FindTranscript(world.tracks, languages, 1)
         IN  IF found = 0 THEN [ok |-> FALSE, exc |-> "NoTranscriptFound"]
             ELSE FetchTrack(world.tracks[found])

\* the try block of get_video_transcript: the segments obtained, the early
\* return "no_tracks", or the exception that reaches the outer handler
ResolveTranscript(languages, world) ==
    IF world.listing /= "ok" THEN [ok |-> FALSE, exc |-> world.listing]
    ELSE IF languages = NoLanguages
    THEN LET tracks == world.tracks
             manual == Matching(tracks, <<"en">>, FALSE)
             generated == Matching(tracks, <<"en">>, TRUE)
             tier1 == IF manual = {} THEN [ok |-> FALSE, exc |-> "NoTranscriptFound"]
                      ELSE FetchTrack(tracks[FirstOf(manual)])
             tier2 == IF generated = {} THEN [ok |-> FALSE, exc |-> "NoTranscriptFound"]
                      ELSE FetchTrack(tracks[FirstOf(generated)])
         IN  IF tier1.ok THEN tier1
             ELSE IF tier2.ok THEN tier2
             ELSE IF Len(tracks) > 0 THEN FetchTrack(tracks[1])
             ELSE [ok |-> FALSE, exc |-> "no_tracks"]
    ELSE LET found == FindTranscript(world.tracks, languages, 1)
         IN  IF found = 0 THEN [ok |-> FALSE, exc |-> "NoTranscriptFound"]
             ELSE FetchTrack(world.tracks[found])

get_video_transcript(video_id, languages, world) ==
    IF video_id = None
    THEN [error |-> "You must provide a video_id (e.g., 'rfscVS0vtbw')"]
    ELSE LET r == ResolveTranscript(languages, world)
         IN  IF r.ok
             THEN LET transcript_text == FormatTranscript(r.segments, Len(r.segments))
                  IN  [video_id |-> video_id, transcript |-> transcript_text,
                       length |-> Len(transcript_text), segments |-> Len(r.segments)]
             ELSE IF r.exc = "no_tracks"
             THEN [error |-> "No transcripts available for video " \o video_id]
             ELSE LET error_msg == ExcStr(r.exc)
                  IN  IF InStr("TranscriptsDisabled", error_msg)
                      THEN [error |-> "Transcripts are disabled for video " \o video_id]
                      ELSE IF InStr("NoTranscriptFound", error_msg)
                      THEN [error |-> "No transcript found for video " \o video_id
                                      \o " in requested languages"]
                      ELSE IF InStr("VideoUnavailable", error_msg)
                      THEN [error |-> "Video " \o video_id \o " is unavailable"]
                      ELSE [error |-> "Failed to get transcript for " \o video_id
                                      \o ": " \o error_msg]

-----------------------------------------------------------------------------
(* fetch_and_index_transcript(video_id, languages), as a function of the   *)
(* index pair it starts from, of what get_video_details and                *)
(* get_video_transcript return to it and of the outcome of the encoder:    *)
(* the index pair it leaves, the dict it returns and the calls it made.    *)

\* entries of the log `calls`
Call(name, video_id) == [call |-> name, video_id |-> video_id]

\* a call of a collaborating function together with what it returned
Returned(name, video_id, result) ==
    [call |-> name, video_id |-> video_id, returned |-> result]

\* the discovery call: the max_results it was given and what it returned
Discovered(max_results, found) ==
    [call |-> "get_latest_videos_from_channel", video_id |-> None,
     max_results |-> max_results, returned |-> found]

\* the captioning collaborator was asked for the tracks of a video and was in
\* this world
Listed(video_id, world) ==
    [call |-> "list_transcripts", video_id |-> video_id, world |-> world]

Checked(video_id, has_transcripts) ==
    [call |-> "check_transcript_availability", video_id |-> video_id,
     has_transcripts |-> has_transcripts]

Fetched(video_id, result) ==
    [call |-> "fetch_and_index_transcript", video_id |-> video_id, returned |-> result]

\* a variant that resolves the transcript before it asks for the metadata
FetchAndIndex_TranscriptFirst(ix, store, video_id, video_details, transcript_result, enc) ==
    LET c1 == <<Returned("get_video_transcript", video_id, transcript_result)>>
        c2 == Append(c1, Returned("get_video_details", video_id, video_details))
        c3 == Append(c2, Call("encode", video_id))
    IN  IF "error" \in DOMAIN transcript_result
        THEN [index |-> ix, video_store |-> store, result |-> transcript_result,
              calls |-> c1]
        ELSE IF "error" \in DOMAIN video_details
        THEN [index |-> ix, video_store |-> store, result |-> video_details,
              calls |-> c2]
        ELSE IF enc = "raises"
        THEN [index |-> ix, video_store |-> store,
              result |-> [error |-> "Failed to fetch and index transcript for "
                                    \o video_id \o ": encode"],
              calls |-> c3]
        ELSE LET transcript_text == transcript_result.transcript
             IN  [index |-> IndexAdd(ix, Encode(transcript_text)),
                  video_store |-> Append(store,
                        [title |-> video_details.title,
                         transcript |-> transcript_text,
                         video_id |-> video_id,
                         url |-> video_details.url]),
                  result |-> [status |-> "indexed", video_id |-> video_id,
                              title |-> video_details.title,
                              transcript_length |-> Len(transcript_text),
                              segments |-> transcript_result.segments],
                  calls |-> Append(Append(c3, Call("index.add", video_id)),
                                   Call("video_store.append", video_id))]

\* a variant that reports a failed resolution in words of its own
FetchAndIndex_Rewrapped(ix, store, video_id, video_details, transcript_result, enc) ==
    LET c1 == <<Returned("get_video_details", video_id, video_details)>>
        c2 == Append(c1, Returned("get_video_transcript", video_id,
                                  transcript_result))
        c3 == Append(c2, Call("encode", video_id))
    IN  IF "error" \in DOMAIN video_details
        THEN [index |-> ix, video_store |-> store, result |-> video_details,
              calls |-> c1]
        ELSE IF "error" \in DOMAIN transcript_result
        THEN [index |-> ix, video_store |-> store,
              result |-> [error |-> "Failed to fetch and index transcript for "
                                    \o video_id \o ": " \o transcript_result.error],
              calls |-> c2]
        ELSE IF enc = "raises"
        THEN [index |-> ix, video_store |-> store,
              result |-> [error |-> "Failed to fetch and index transcript for "
                                    \o video_id \o ": encode"],
              calls |-> c3]
        ELSE LET transcript_text == transcript_result.transcript
             IN  [index |-> IndexAdd(ix, Encode(transcript_text)),
                  video_store |-> Append(store,
                        [title |-> video_details.title,
                         transcript |-> transcript_text,
                         video_id |-> video_id,
                         url |-> video_details.url]),
                  result |-> [status |-> "indexed", video_id |-> video_id,
                              title |-> video_details.title,
                              transcript_length |-> Len(transcript_text),
                              segments |-> transcript_result.segments],
                  calls |-> Append(Append(c3, Call("index.add", video_id)),
                                   Call("video_store.append", video_id))]

\* a variant that appends the record before it encodes the transcript
FetchAndIndex_AppendFirst(ix, store, video_id, video_details, transcript_result, enc) ==
    LET c1 == <<Returned("get_video_details", video_id, video_details)>>
        c2 == Append(c1, Returned("get_video_transcript", video_id,
                                  transcript_result))
        c3 == Append(Append(c2, Call("video_store.append", video_id)),
                     Call("encode", video_id))
    IN  IF "error" \in DOMAIN video_details
        THEN [index |-> ix, video_store |-> store, result |-> video_details,
              calls |-> c1]
        ELSE IF "error" \in DOMAIN transcript_result
        THEN [index |-> ix, video_store |-> store, result |-> transcript_result,
              calls |-> c2]
        ELSE LET transcript_text == transcript_result.transcript
                 appended == Append(store,
                        [title |-> video_details.title,
                         transcript |-> transcript_text,
                         video_id |-> video_id,
                         url |-> video_details.url])
             IN  IF enc = "raises"
                 THEN [index |-> ix, video_store |-> appended,
                       result |-> [error |-> "Failed to fetch and index transcript for "
                                             \o video_id \o ": encode"],
                       calls |-> c3]
                 ELSE [index |-> IndexAdd(ix, Encode(transcript_text)),
                       video_store |-> appended,
                       result |-> [status |-> "indexed", video_id |-> video_id,
                                   title |-> video_details.title,
                                   transcript_length |-> Len(transcript_text),
                                   segments |-> transcript_result.segments],
                       calls |-> Append(c3, Call("index.add", video_id))]

\* a variant that reports the number of segments as the transcript length
FetchAndIndex_SegmentCount(ix, store, video_id, video_details, transcript_result, enc) ==
    LET c1 == <<Returned("get_video_details", video_id, video_details)>>
        c2 == Append(c1, Returned("get_video_transcript", video_id,
                                  transcript_result))
        c3 == Append(c2, Call("encode", video_id))
    IN  IF "error" \in DOMAIN video_details
        THEN [index |-> ix, video_store |-> store, result |-> video_details,
              calls |-> c1]
        ELSE IF "error" \in DOMAIN transcript_result
        THEN [index |-> ix, video_store |-> store, result |-> transcript_result,
              calls |-> c2]
        ELSE IF enc = "raises"
        THEN [index |-> ix, video_store |-> store,
              result |-> [error |-> "Failed to fetch and index transcript for "
                                    \o video_id \o ": encode"],
              calls |-> c3]
        ELSE LET transcript_text == transcript_result.transcript
             IN  [index |-> IndexAdd(ix, Encode(transcript_text)),
                  video_store |-> Append(store,
                        [title |-> video_details.title,
                         transcript |-> transcript_text,
                         video_id |-> video_id,
                         url |-> video_details.url]),
                  result |-> [status |-> "indexed", video_id |-> video_id,
                              title |-> video_details.title,
                              transcript_length |-> transcript_result.segments,
                              segments |-> transcript_result.segments],
                  calls |-> Append(Append(c3, Call("index.add", video_id)),
                                   Call("video_store.append", video_id))]

FetchAndIndex(ix, store, video_id, video_details, transcript_result, enc) ==
    LET c1 == <<Returned("get_video_details", video_id, video_details)>>
        c2 == Append(c1, Returned("get_video_transcript", video_id,
                                  transcript_result))
        c3 == Append(c2, Call("encode", video_id))
    IN  IF "error" \in DOMAIN video_details
        THEN [index |-> ix, video_store |-> store, result |-> video_details,
              calls |-> c1]
        ELSE IF "error" \in DOMAIN transcript_result
        THEN [index |-> ix, video_store |-> store, result |-> transcript_result,
              calls |-> c2]
        ELSE IF enc = "raises"
        THEN [index |-> ix, video_store |-> store,
              result |-> [error |-> "Failed to fetch and index transcript for "
                                    \o video_id \o ": encode"],
              calls |-> c3]
        ELSE LET transcript_text == transcript_result.transcript
             IN  [index |-> IndexAdd(ix, Encode(transcript_text)),
                  video_store |-> Append(store,
                        [title |-> video_details.title,
                         transcript |-> transcript_text,
                         video_id |-> video_id,
                         url |-> video_details.url]),
                  result |-> [status |-> "indexed", video_id |-> video_id,
                              title |-> video_details.title,
                              transcript_length |-> Len(transcript_text),
                              segments |-> transcript_result.segments],
                  calls |-> Append(Append(c3, Call("index.add", video_id)),
                                   Call("video_store.append", video_id))]

fetch_and_index_transcript(video_id, languages, det, world, enc) ==
    LET args == [video_id |-> video_id, languages |-> languages]
        out == FetchAndIndex(index, video_store, video_id,
                             get_video_details(video_id, det),
                             get_video_transcript(video_id, languages, world), enc)
    IN  /\ CanStart
        /\ Len(out.index) <= MaxIndexed
        /\ pre' = Snapshot
        /\ index' = out.index
        /\ IF "error" \in DOMAIN out.result
           THEN /\ video_store' = out.video_store
                /\ calls' = out.calls
                /\ ret' = ReturnDict("fetch_and_index_transcript", args, out.result)
                /\ pc' = "done"
           ELSE /\ calls' = SubSeq(out.calls, 1, Len(out.calls) - 1)
                /\ ret' = Appending("fetch_and_index_transcript", args,
                            out.video_store[Len(out.video_store)], out.result)
                /\ pc' = "appending"
                /\ UNCHANGED video_store
        /\ UNCHANGED <<videos, pos, indexed_count, failed_count, results>>

-----------------------------------------------------------------------------
(* get_latest_videos_from_channel(channel_id, max_results): the list the   *)
(* discovery collaborator answers with, or a dict with "error".  The       *)
(* function returns every item of the response; n is their number.         *)

RECURSIVE VideoList(_)
VideoList(n) ==
    IF n = 0 THEN << >>
    ELSE Append(VideoList(n - 1),
                [title |-> VideoTitle(Catalogue[n]), video_id |-> Catalogue[n],
                 url |-> VideoUrl(Catalogue[n])])

DiscoveryOutcomes == {"ok", "raises"}

get_latest_videos_from_channel(max_results, disc, n) ==
    IF disc = "raises" THEN [kind |-> "dict", val |-> [error |-> "HttpError"]]
    ELSE [kind |-> "list", val |-> VideoList(n)]

-----------------------------------------------------------------------------
(* bulk_index_channel_videos(channel_id, max_videos) *)

\* a variant that answers a failed discovery with a report over no candidates
BulkDiscoveryError_EmptyReport(found) ==
    [status |-> "completed", indexed |-> 0, failed |-> 0, total_attempted |-> 0,
     details |-> << >>]

\* `return videos`: the dict of the failed discovery is returned as it is
BulkDiscoveryError(found) == found.val

\* the call up to the loop: discovery, then the counters and the list
bulk_index_channel_videos(max_videos, disc, n) ==
    LET args == [max_videos |-> max_videos]
        found == get_latest_videos_from_channel(max_videos, disc, n)
    IN  /\ CanStart
        /\ pre' = Snapshot
        /\ calls' = <<Discovered(max_videos, found)>>
        /\ IF found.kind = "dict" /\ "error" \in DOMAIN found.val
           THEN /\ ret' = ReturnDict("bulk_index_channel_videos", args,
                                     BulkDiscoveryError(found))
                /\ pc' = "done"
                /\ UNCHANGED <<videos, pos, indexed_count, failed_count, results>>
           ELSE /\ pc' = "bulk_loop"
                /\ videos' = found.val
                /\ pos' = 0
                /\ indexed_count' = 0
                /\ failed_count' = 0
                /\ results' = << >>
                /\ ret' = [tool |-> "get_latest_videos_from_channel", args |-> args,
                           kind |-> "list", val |-> found.val]
        /\ UNCHANGED <<index, video_store>>

\* the entry appended to results for one candidate
BulkEntry(video, availability, result) ==
    IF HasTranscripts(availability)
    THEN IF "error" \in DOMAIN result
         THEN [video_id |-> video.video_id, title |-> video.title,
               status |-> "failed", error |-> result.error]
         ELSE [video_id |-> video.video_id, title |-> video.title,
               status |-> "indexed",
               transcript_length |-> result.transcript_length]
    ELSE [video_id |-> video.video_id, title |-> video.title,
          status |-> "no_transcript", error |-> "No transcripts available"]

\* a variant that counts a candidate as indexed as soon as it has transcripts
BulkIndexed_Attempted(count, availability, result) ==
    IF HasTranscripts(availability) THEN count + 1 ELSE count

\* indexed_count after one candidate
BulkIndexed(count, availability, result) ==
    IF HasTranscripts(availability) /\ ~("error" \in DOMAIN result)
    THEN count + 1 ELSE count

\* a variant that counts only the candidates whose ingestion returned an error
BulkFailed_OnlyFetch(count, availability, result) ==
    IF HasTranscripts(availability) /\ "error" \in DOMAIN result
    THEN count + 1 ELSE count

\* failed_count after one candidate
BulkFailed(count, availability, result) ==
    IF HasTranscripts(availability) /\ ~("error" \in DOMAIN result)
    THEN count ELSE count + 1

\* a variant that leaves the loop at the first candidate whose ingestion fails
\* a variant that tries a candidate again when its ingestion failed
BulkNextPos_Retry(p, n, availability, result) ==
    IF HasTranscripts(availability) /\ "error" \in DOMAIN result THEN p ELSE p + 1

BulkNextPos_Break(p, n, availability, result) ==
    IF HasTranscripts(availability) /\ "error" \in DOMAIN result THEN n ELSE p + 1

\* the for loop goes on to the next candidate whatever the outcome of this one:
\* the body has no break and no return, and nothing it calls raises
BulkNextPos(p, n, availability, result) == p + 1

\* one iteration of `for video in videos`
bulk_loop_body(avail_world, det, world, enc) ==
    LET video == videos[pos + 1]
        availability == check_transcript_availability(video.video_id, avail_world)
        checked == Append(calls, Checked(video.video_id, availability.has_transcripts))
        out == FetchAndIndex(index, video_store, video.video_id,
                             get_video_details(video.video_id, det),
                             get_video_transcript(video.video_id, NoLanguages, world),
                             enc)
    IN  /\ pc = "bulk_loop"
        /\ pos < Len(videos)
        /\ IF HasTranscripts(availability)
           THEN /\ Len(out.index) <= MaxIndexed
                /\ index' = out.index
                /\ video_store' = out.video_store
                /\ calls' = Append(checked, Fetched(video.video_id, out.result))
                                \o out.calls
                /\ ret' = ReturnDict("fetch_and_index_transcript",
                            [video_id |-> video.video_id, languages |-> NoLanguages],
                            out.result)
           ELSE /\ UNCHANGED <<index, video_store>>
                /\ calls' = checked
                /\ ret' = ReturnDict("check_transcript_availability",
                            [video_id |-> video.video_id], availability)
        /\ results' = Append(results, BulkEntry(video, availability, out.result))
        /\ indexed_count' = BulkIndexed(indexed_count, availability, out.result)
        /\ failed_count' = BulkFailed(failed_count, availability, out.result)
        /\ pos' = BulkNextPos(pos, Len(videos), availability, out.result)
        /\ UNCHANGED <<pc, videos, pre>>

\* a variant that reports the number of ingested candidates as total_attempted
BulkReport_Succeeded(n_indexed, n_failed, vids, details) ==
    [status |-> "completed", indexed |-> n_indexed, failed |-> n_failed,
     total_attempted |-> n_indexed, details |-> details]

\* the dict returned after the loop
BulkReport(n_indexed, n_failed, vids, details) ==
    [status |-> "completed", indexed |-> n_indexed, failed |-> n_failed,
     total_attempted |-> Len(vids), details |-> details]

bulk_return ==
    /\ pc = "bulk_loop"
    /\ pos = Len(videos)
    /\ pc' = "done"
    /\ ret' = ReturnDict("bulk_index_channel_videos",
                [max_videos |-> calls[1].max_results],
                BulkReport(indexed_count, failed_count, videos, results))
    \* the locals of the call go out of scope
    /\ videos' = << >>
    /\ pos' = 0
    /\ indexed_count' = 0
    /\ failed_count' = 0
    /\ results' = << >>
    /\ UNCHANGED <<index, video_store, calls, pre>>

-----------------------------------------------------------------------------
(* find_videos_with_transcripts(query, channel_id, max_results) *)

\* the candidates whose availability check says transcripts exist, each with
\* the descriptors of its tracks
RECURSIVE WithTranscripts(_, _, _)
WithTranscripts(vids, worlds, j) ==
    IF j = 0 THEN << >>
    ELSE LET availability == check_transcript_availability(vids[j].video_id, worlds[j])
             rest == WithTranscripts(vids, worlds, j - 1)
         IN  IF HasTranscripts(availability)
             THEN Append(rest, [title |-> vids[j].title, video_id |-> vids[j].video_id,
                                url |-> vids[j].url,
                                transcript_info |-> availability.available_transcripts])
             ELSE rest

find_videos_with_transcripts(max_results, disc, n, worlds) ==
    LET args == [max_results |-> max_results]
        found == get_latest_videos_from_channel(max_results, disc, n)
    IN  /\ CanStart
        /\ pre' = Snapshot
        /\ calls' = <<Discovered(max_results, found)>>
        /\ IF found.kind = "dict" /\ "error" \in DOMAIN found.val
           THEN ret' = ReturnDict("find_videos_with_transcripts", args, found.val)
           ELSE LET kept == WithTranscripts(found.val, worlds, Len(found.val))
                IN  ret' = ReturnDict("find_videos_with_transcripts", args,
                            [total_checked |-> Len(found.val),
                             videos_with_transcripts |-> Len(kept),
                             videos |-> kept])
        /\ pc' = "done"
        /\ UNCHANGED <<index, video_store, videos, pos, indexed_count,
                       failed_count, results>>

-----------------------------------------------------------------------------
(* The inputs of the steps.  The outcome of a call that is not made is     *)
(* fixed, so that one execution is one step.                               *)

\* the world written for a captioning call that does not happen
NotCalled == [listing |-> "TranscriptsDisabled", tracks |-> << >>]

\* the worlds the availability check tells apart: tracks listed, no track
\* listed, listing refused
AvailWorlds ==
    { w \in CaptionWorlds :
        \/ w.listing = "TranscriptsDisabled"
        \/ w.listing = "ok" /\ w.tracks = << >>
        \/ w.listing = "ok" /\ Len(w.tracks) = 1 /\ w.tracks[1].fetch = "ok"
           /\ w.tracks[1].language_code = "en" /\ ~w.tracks[1].is_generated }

\* the worlds drawn for the transcript fetch of a bulk candidate: the manually
\* created "en" track, readable or not
BulkWorlds ==
    { w \in CaptionWorlds :
        /\ w.listing = "ok" /\ Len(w.tracks) = 1
        /\ w.tracks[1].language_code = "en" /\ ~w.tracks[1].is_generated }

\* the worlds drawn for a direct get_video_transcript call: those above and
\* videos with two tracks, listed manually created first
TranscriptWorlds ==
    CaptionWorlds \cup
    { [listing |-> "ok", tracks |-> <<Track("en", FALSE, "ok", <<"hello", "world">>),
                                      Track("en", TRUE, "ok", <<"python", "basics">>)>>],
      [listing |-> "ok", tracks |-> <<Track("fr", FALSE, "ok", <<"bonjour">>),
                                      Track("en", FALSE, "ok", <<"hello", "world">>)>>],
      [listing |-> "ok", tracks |-> <<Track("fr", FALSE, "ok", <<"bonjour">>),
                                      Track("en", TRUE, "ok", <<"python", "basics">>)>>],
      [listing |-> "ok", tracks |-> <<Track("fr", FALSE, "ok", <<"bonjour">>),
                                      Track("en", FALSE, "raises", << >>)>>],
      [listing |-> "ok", tracks |-> <<Track("fr", FALSE, "raises", << >>),
                                      Track("en", TRUE, "raises", << >>)>>],
      [listing |-> "ok", tracks |-> <<Track("fr", FALSE, "ok", <<"bonjour">>),
                                      Track("en", TRUE, "raises", << >>)>>] }

\* the languages arguments drawn for a direct get_video_transcript call
LanguageLists == {NoLanguages, <<"fr">>, <<"en">>, <<"fr", "en">>}

\* largest candidate list drawn for find_videos_with_transcripts
MaxFound == 2

\* det, world, enc are outcomes of the calls fetch_and_index_transcript makes
FetchInputs(video_id, languages, det, world, enc) ==
    /\ det /= "ok" => world = NotCalled
    /\ (det /= "ok" \/ "error" \in DOMAIN get_video_transcript(video_id, languages, world))
          => enc = "ok"

\* no tool call is in progress and none is waiting to be answered
NoCall == [tool |-> None, args |-> None, kind |-> None, val |-> None]

Init ==
    /\ index = << >>
    /\ video_store = << >>
    /\ ret = NoCall
    /\ calls = << >>
    /\ pc = "idle"
    /\ videos = << >>
    /\ pos = 0
    /\ indexed_count = 0
    /\ failed_count = 0
    /\ results = << >>
    /\ pre = [index |-> << >>, video_store |-> << >>]
    /\ hb = "print"

IndexVideo ==
    /\ UNCHANGED hb
    /\ \E title \in Titles, transcript \in Texts, video_id \in {None},
          enc \in EncodeOutcomes :
           index_video(title, transcript, video_id, enc)

SemanticSearch ==
    /\ UNCHANGED hb
    /\ \E query \in Texts, top_k \in TopKs, full \in BOOLEAN, enc \in EncodeOutcomes :
           /\ Len(video_store) = 0 => enc = "ok"
           /\ semantic_search(query, top_k, full, enc)

FetchAndIndexTranscript ==
    /\ UNCHANGED hb
    /\ \E video_id \in {"A"}, languages \in {NoLanguages, <<"fr">>},
          det \in DetailsOutcomes, world \in CaptionWorlds, enc \in EncodeOutcomes :
           /\ FetchInputs(video_id, languages, det, world, enc)
           /\ fetch_and_index_transcript(video_id, languages, det, world, enc)

\* a variant that keeps what it learned as a record of video_store
CheckTranscriptAvailability_Recording ==
    /\ UNCHANGED hb
    /\ \E video_id \in {None, "A"}, world \in CaptionWorlds :
           /\ CanStart
           /\ video_id = None => world = NotCalled
           /\ pre' = Snapshot
           /\ calls' = IF video_id = None THEN << >> ELSE <<Listed(video_id, world)>>
           /\ ret' = ReturnDict("check_transcript_availability", [video_id |-> video_id],
                       check_transcript_availability(video_id, world))
           /\ pc' = "done"
           /\ video_store' = Append(video_store,
                   [title |-> None, transcript |-> "", video_id |-> video_id])
           /\ UNCHANGED <<index, videos, pos, indexed_count, failed_count, results>>

CheckTranscriptAvailability ==
    /\ UNCHANGED hb
    /\ \E video_id \in {None, "A"}, world \in CaptionWorlds :
           /\ CanStart
           /\ video_id = None => world = NotCalled
           /\ pre' = Snapshot
           /\ calls' = IF video_id = None THEN << >> ELSE <<Listed(video_id, world)>>
           /\ ret' = ReturnDict("check_transcript_availability", [video_id |-> video_id],
                       check_transcript_availability(video_id, world))
           /\ pc' = "done"
           /\ UNCHANGED <<index, video_store, videos, pos, indexed_count,
                          failed_count, results>>

GetVideoTranscript ==
    /\ UNCHANGED hb
    /\ \E video_id \in {None, "A"}, languages \in LanguageLists,
          world \in TranscriptWorlds :
           /\ CanStart
           /\ video_id = None => (world = NotCalled /\ languages = NoLanguages)
           /\ pre' = Snapshot
           /\ calls' = IF video_id = None THEN << >> ELSE <<Listed(video_id, world)>>
           /\ ret' = ReturnDict("get_video_transcript",
                       [video_id |-> video_id, languages |-> languages],
                       get_video_transcript(video_id, languages, world))
           /\ pc' = "done"
           /\ UNCHANGED <<index, video_store, videos, pos, indexed_count,
                          failed_count, results>>

BulkIndexChannelVideos ==
    /\ UNCHANGED hb
    \* the response of the discovery collaborator holds up to one item more
    \* than the call asked for
    /\ \E max_videos \in {MaxVideos - 1}, disc \in DiscoveryOutcomes,
          n \in 0 .. MaxVideos :
           /\ Len(index) <= MaxBulkStart
           /\ disc = "raises" => n = 0
           /\ bulk_index_channel_videos(max_videos, disc, n)

BulkLoop ==
    /\ UNCHANGED hb
    /\ \E avail_world \in AvailWorlds, det \in {"ok", "no_items"},
          world \in BulkWorlds \cup {NotCalled}, enc \in EncodeOutcomes :
           /\ pc = "bulk_loop"
           /\ pos < Len(videos)
           /\ ~HasTranscripts(check_transcript_availability(videos[pos + 1].video_id,
                                                            avail_world))
                 => (det = "ok" /\ world = NotCalled /\ enc = "ok")
           /\ FetchInputs(videos[pos + 1].video_id, NoLanguages, det, world, enc)
           /\ bulk_loop_body(avail_world, det, world, enc)

BulkReturn ==
    /\ UNCHANGED hb
    /\ bulk_return

VideoStoreAppend ==
    /\ UNCHANGED hb
    /\ video_store_append

\* the response is sent; the server waits for the next request
Respond ==
    /\ UNCHANGED hb
    /\ pc = "done"
    /\ pc' = "idle"
    /\ ret' = NoCall
    /\ calls' = << >>
    /\ pre' = [index |-> << >>, video_store |-> << >>]
    /\ UNCHANGED <<index, video_store, videos, pos, indexed_count, failed_count,
                   results>>

FindVideosWithTranscripts ==
    /\ UNCHANGED hb
    /\ \E max_results \in {MaxFound}, disc \in DiscoveryOutcomes, n \in 0 .. MaxFound :
           \E worlds \in [1 .. n -> AvailWorlds] :
               /\ disc = "raises" => n = 0
               /\ find_videos_with_transcripts(max_results, disc, n, worlds)

Next ==
    \/ IndexVideo
    \/ VideoStoreAppend
    \/ SemanticSearch
    \/ FetchAndIndexTranscript
    \/ CheckTranscriptAvailability
    \/ GetVideoTranscript
    \/ BulkIndexChannelVideos
    \/ BulkLoop
    \/ BulkReturn
    \/ FindVideosWithTranscripts
    \/ Respond

Spec == Init /\ [][Next]_vars

-----------------------------------------------------------------------------
(* server_2.py, the earlier version of the server: the same index and      *)
(* video_store, a fetch_and_index_transcript that fetches the transcript   *)
(* itself, and a bulk_index_channel_videos without availability check and  *)
(* without details.                                                        *)

\* YouTubeTranscriptApi.fetch(video_id) returns the segments or raises
FetchOutcomes_server_2 == {"ok", "raises"}

\* fetch_and_index_transcript(video_id) of server_2 as a function of the
\* outcomes of its collaborators
fetch_and_index_transcript_server_2(ix, store, video_id, det, fetch, enc) ==
    LET video_details == get_video_details(video_id, det)
        \* " ".join of the texts of the segments; the track has one segment,
        \* a caption of two lines
        transcript_text == "hello\nworld"
    IN  IF "error" \in DOMAIN video_details
        THEN [index |-> ix, video_store |-> store, result |-> video_details]
        ELSE IF fetch = "raises"
        THEN [index |-> ix, video_store |-> store,
              result |-> [error |-> "Transcript not available for " \o video_id
                                    \o ": fetch"]]
        ELSE IF enc = "raises"
        THEN [index |-> ix, video_store |-> store,
              result |-> [error |-> "Transcript not available for " \o video_id
                                    \o ": encode"]]
        ELSE [index |-> IndexAdd(ix, Encode(transcript_text)),
              video_store |-> Append(store,
                    [title |-> video_details.title, transcript |-> transcript_text,
                     video_id |-> video_id, url |-> video_details.url]),
              result |-> [status |-> "indexed", video_id |-> video_id,
                          title |-> video_details.title,
                          transcript_length |-> Len(transcript_text)]]

\* the call up to the loop
bulk_index_channel_videos_server_2(max_videos, disc, n) ==
    LET args == [max_videos |-> max_videos]
        found == get_latest_videos_from_channel(max_videos, disc, n)
    IN  /\ CanStart
        /\ pre' = Snapshot
        /\ calls' = <<Discovered(max_videos, found)>>
        /\ IF found.kind = "dict" /\ "error" \in DOMAIN found.val
           THEN /\ ret' = ReturnDict("bulk_index_channel_videos", args, found.val)
                /\ pc' = "done"
                /\ UNCHANGED <<videos, pos, indexed_count, failed_count>>
           ELSE /\ pc' = "bulk_loop_server_2"
                /\ videos' = found.val
                /\ pos' = 0
                /\ indexed_count' = 0
                /\ failed_count' = 0
                /\ ret' = [tool |-> "get_latest_videos_from_channel", args |-> args,
                           kind |-> "list", val |-> found.val]
        /\ UNCHANGED <<index, video_store, results>>

\* a variant that counts a failure only when the metadata fetch failed
BulkFailed_server_2_DetailsOnly(count, result) ==
    IF "error" \in DOMAIN result /\ result.error \in {"HttpError", "Video not found"}
    THEN count + 1 ELSE count

\* failed_count after one candidate
BulkFailed_server_2(count, result) ==
    IF "error" \in DOMAIN result THEN count + 1 ELSE count

\* one iteration of `for video in videos`
bulk_loop_body_server_2(det, fetch, enc) ==
    LET video == videos[pos + 1]
        out == fetch_and_index_transcript_server_2(index, video_store,
                                                   video.video_id, det, fetch, enc)
    IN  /\ pc = "bulk_loop_server_2"
        /\ pos < Len(videos)
        /\ Len(out.index) <= MaxIndexed
        /\ index' = out.index
        /\ video_store' = out.video_store
        \* the result is looked at for "error" and dropped
        /\ indexed_count' = IF "error" \in DOMAIN out.result
                            THEN indexed_count ELSE indexed_count + 1
        /\ failed_count' = BulkFailed_server_2(failed_count, out.result)
        /\ pos' = pos + 1
        /\ UNCHANGED <<pc, videos, results, calls, pre, ret>>

bulk_return_server_2 ==
    /\ pc = "bulk_loop_server_2"
    /\ pos = Len(videos)
    /\ pc' = "done"
    /\ ret' = ReturnDict("bulk_index_channel_videos",
                [max_videos |-> calls[1].max_results],
                [status |-> "completed", indexed |-> indexed_count,
                 failed |-> failed_count, total_attempted |-> Len(videos)])
    /\ videos' = << >>
    /\ pos' = 0
    /\ indexed_count' = 0
    /\ failed_count' = 0
    /\ UNCHANGED <<index, video_store, results, calls, pre>>

BulkIndexChannelVideos_server_2 ==
    /\ UNCHANGED hb
    /\ \E max_videos \in {MaxVideos - 1}, disc \in DiscoveryOutcomes,
          n \in 0 .. MaxVideos :
           /\ Len(index) <= MaxBulkStart
           /\ disc = "raises" => n = 0
           /\ bulk_index_channel_videos_server_2(max_videos, disc, n)

BulkLoop_server_2 ==
    /\ UNCHANGED hb
    /\ \E det \in DetailsOutcomes, fetch \in FetchOutcomes_server_2,
          enc \in EncodeOutcomes :
           /\ det /= "ok" => fetch = "ok"
           /\ (det /= "ok" \/ fetch /= "ok") => enc = "ok"
           /\ bulk_loop_body_server_2(det, fetch, enc)

BulkReturn_server_2 ==
    /\ UNCHANGED hb
    /\ bulk_return_server_2

\* the tools of server_3 and the bulk tool of server_2
NextWithServer2 ==
    \/ Next
    \/ BulkIndexChannelVideos_server_2
    \/ BulkLoop_server_2
    \/ BulkReturn_server_2

SpecWithServer2 == Init /\ [][NextWithServer2]_vars

-----------------------------------------------------------------------------

(* The heartbeat thread started by main(): `while True: print(...);        *)
(* time.sleep(30)`.  It is a thread of its own; the operating system and   *)
(* the interpreter give it the processor again and again whatever the      *)
(* thread serving the tools is doing, and a thread blocked in a network    *)
(* call has released the interpreter lock.                                 *)

\* a variant in which the heartbeat takes the turn of a tool call: it runs
\* only between tool calls
HeartbeatCanRun_Locked == pc = "idle"

\* what the loop waits for before its next step apart from its own sleep:
\* nothing; it acquires no lock and reads no state of the tools
HeartbeatCanRun == TRUE

\* print("Server alive, waiting for requests...", file=sys.stderr, flush=True)
heartbeat_print ==
    /\ HeartbeatCanRun
    /\ hb = "print"
    /\ hb' = "sleep"
    /\ UNCHANGED <<index, video_store, ret, calls, pc, videos, pos,
                   indexed_count, failed_count, results, pre>>

\* time.sleep(30) returns
heartbeat_sleep ==
    /\ HeartbeatCanRun
    /\ hb = "sleep"
    /\ hb' = "print"
    /\ UNCHANGED <<index, video_store, ret, calls, pc, videos, pos,
                   indexed_count, failed_count, results, pre>>

HeartbeatPrint == heartbeat_print

HeartbeatSleep == heartbeat_sleep

\* the server with its heartbeat thread
NextWithHeartbeat ==
    \/ Next
    \/ HeartbeatPrint
    \/ HeartbeatSleep

\* The heartbeat thread is scheduled fairly.  Nothing is assumed of the tool
\* calls: one may stay forever where it is (a network call that never
\* returns).
SpecHeartbeat ==
    /\ Init
    /\ [][NextWithHeartbeat]_vars
    /\ WF_hb(HeartbeatPrint)
    /\ WF_hb(HeartbeatSleep)

-----------------------------------------------------------------------------

(* The similarity score as a function of the distance alone.  The          *)
(* distances of the program are 32-bit floats; they are drawn here as      *)
(* multiples of 1 / DistUnit, fine enough to reach the quotients that      *)
(* round(.., 2) rounds up to 100.0.                                        *)

\* a distance d stands for d / DistUnit
DistUnit == 100000
\* the distances 0 .. MaxTinyDistance, in units of 1 / DistUnit, are drawn
MaxTinyDistance == 6
\* and the multiples of one half up to this whole number
MaxDistance == 4

Distances ==
    (0 .. MaxTinyDistance)
        \cup { k * (DistUnit \div 2) : k \in 1 .. 2 * MaxDistance }

\* two distances are to be scored
InitScore ==
    /\ \E d1 \in Distances, d2 \in Distances :
          ret = [tool |-> "similarity_score", args |-> <<d1, d2>>,
                 kind |-> "distances", val |-> << >>]
    /\ index = << >>
    /\ video_store = << >>
    /\ calls = << >>
    /\ pc = "idle"
    /\ videos = << >>
    /\ pos = 0
    /\ indexed_count = 0
    /\ failed_count = 0
    /\ results = << >>
    /\ pre = [index |-> << >>, video_store |-> << >>]
    /\ hb = "print"

\* the expression of the "similarity_score" entry, applied to both
ScoreDistances ==
    /\ ret.tool = "similarity_score"
    /\ ret.kind = "distances"
    /\ ret' = [ret EXCEPT !.kind = "scores",
                          !.val = <<Similarity(ret.args[1], DistUnit),
                                    Similarity(ret.args[2], DistUnit)>>]
    /\ UNCHANGED <<index, video_store, calls, pc, videos, pos, indexed_count,
                   failed_count, results, pre, hb>>

NextScore == ScoreDistances

SpecScore == InitScore /\ [][NextScore]_vars

-----------------------------------------------------------------------------

(* Properties *)

\* a bulk_index_channel_videos call has returned its report
BulkDone ==
    /\ pc = "done"
    /\ ret.tool = "bulk_index_channel_videos"
    /\ ret.kind = "dict"
    /\ "details" \in DOMAIN ret.val

\* a bulk_index_channel_videos call is in its loop or has returned its report
InBulk == pc = "bulk_loop" \/ BulkDone

\* the candidate list the bulk call obtained from discovery
Candidates == calls[1].returned.val

\* the per-candidate entries so far
BulkDetails == IF pc = "bulk_loop" THEN results ELSE ret.val.details

CountStatus(details, st) ==
    Cardinality({ i \in 1 .. Len(details) : details[i].status = st })

Statuses(details) == [i \in 1 .. Len(details) |-> details[i].status]

\* positions of the log entries of one kind for one video
LogOf(name, video_id) ==
    { j \in 1 .. Len(calls) : calls[j].call = name /\ calls[j].video_id = video_id }

IngestionCalls ==
    {"fetch_and_index_transcript", "get_video_details", "get_video_transcript",
     "encode", "index.add", "video_store.append"}

\* C1: in every state between tool calls (the states inside the bulk loop
\* included) the index holds as many vectors as video_store holds records, and
\* the vector at position i is the encoding of record i's transcript.
C1_IndexAligned ==
    pc /= "appending" =>
        /\ Len(index) = Len(video_store)
        /\ \A i \in 1 .. Len(video_store) :
              index[i] = Encode(video_store[i].transcript)

\* C1 witness: two records, one from index_video and one from
\* fetch_and_index_transcript, and the call that ran last failed.
C1_Witness ==
    /\ pc = "done"
    /\ Len(video_store) = 2
    /\ ~("url" \in DOMAIN video_store[1])
    /\ "url" \in DOMAIN video_store[2]
    /\ ret.tool = "fetch_and_index_transcript"
    /\ IsError(ret)

\* C2: a step in which fetch_and_index_transcript returns an error result
\* (called as a tool or from the bulk loop) leaves the index and video_store
\* as they were.
C2_FailedFetchChangesNothing ==
    [][ (ret'.tool = "fetch_and_index_transcript" /\ IsError(ret'))
            => (index' = index /\ video_store' = video_store) ]_vars

\* C2 witness: fetch_and_index_transcript got as far as the encoder, which
\* raised, on an index that already holds a record.
C2_Witness ==
    /\ ret.tool = "fetch_and_index_transcript"
    /\ IsError(ret)
    /\ Len(calls) > 0
    /\ calls[Len(calls)].call = "encode"
    /\ Len(video_store) >= 1

\* C3: the report of a bulk call has one details entry per candidate, entry i
\* carries the video id of candidate i, and every candidate was attempted
\* (its availability was checked), whatever happened to the candidates before.
C3_EveryCandidateReported ==
    /\ pc = "bulk_loop" => Len(results) = pos
    /\ BulkDone =>
        /\ Len(ret.val.details) = Len(Candidates)
        /\ \A i \in 1 .. Len(Candidates) :
            /\ ret.val.details[i].video_id = Candidates[i].video_id
            /\ LogOf("check_transcript_availability", Candidates[i].video_id) /= {}

\* C3 witness: a report over three candidates in which the first failed, the
\* second had no transcript and the third was indexed.
C3_Witness ==
    /\ BulkDone
    /\ Statuses(ret.val.details) = <<"failed", "no_transcript", "indexed">>

\* C4: in a bulk call every ingestion step for a candidate comes after that
\* candidate's availability check; a candidate whose check says
\* has_transcripts false gets status no_transcript and no ingestion step at
\* all, and the index grows only by the logged index.add calls.
C4_CheckBeforeIngestion ==
    InBulk =>
        /\ \A j \in 1 .. Len(calls) :
            /\ calls[j].call \in IngestionCalls =>
                \E i \in 1 .. (j - 1) :
                    /\ calls[i].call = "check_transcript_availability"
                    /\ calls[i].video_id = calls[j].video_id
                    /\ calls[i].has_transcripts
            /\ (calls[j].call = "check_transcript_availability"
                    /\ ~calls[j].has_transcripts) =>
                /\ \A i \in 1 .. Len(calls) :
                        calls[i].video_id = calls[j].video_id => i = j
                /\ \A i \in 1 .. Len(BulkDetails) :
                        BulkDetails[i].video_id = calls[j].video_id
                            => BulkDetails[i].status = "no_transcript"
        /\ Len(index) = Len(pre.index)
                + Cardinality({ j \in 1 .. Len(calls) : calls[j].call = "index.add" })
        /\ Len(video_store) = Len(pre.video_store)
                + Cardinality({ j \in 1 .. Len(calls) :
                                    calls[j].call = "video_store.append" })

\* C4 witness: a finished bulk call with a no_transcript candidate and an
\* indexed one.
C4_Witness ==
    /\ BulkDone
    /\ CountStatus(ret.val.details, "no_transcript") >= 1
    /\ CountStatus(ret.val.details, "indexed") >= 1

\* what the log says happened to candidate video_id
CheckSaid(video_id) ==
    \E j \in LogOf("check_transcript_availability", video_id) : calls[j].has_transcripts

FetchFailed(video_id) ==
    \E j \in LogOf("fetch_and_index_transcript", video_id) :
        "error" \in DOMAIN calls[j].returned

FetchSucceeded(video_id) ==
    \E j \in LogOf("fetch_and_index_transcript", video_id) :
        ~("error" \in DOMAIN calls[j].returned)

\* C5: in a bulk report a candidate with transcripts whose ingestion returned
\* an error has status failed with that error, an ingested candidate has
\* status indexed, the indexed count is the number of indexed entries, and
\* the candidates [has transcript, no transcript, fetch fails] give indexed 1,
\* statuses [indexed, no_transcript, failed] and total_attempted 3.
C5_ReportStatuses ==
    BulkDone =>
        LET details == ret.val.details
        IN  /\ \A i \in 1 .. Len(details) :
                LET v == details[i].video_id
                IN  /\ (CheckSaid(v) /\ FetchFailed(v)) <=> details[i].status = "failed"
                    /\ FetchSucceeded(v) <=> details[i].status = "indexed"
                    /\ details[i].status = "failed" =>
                        \E j \in LogOf("fetch_and_index_transcript", v) :
                            details[i].error = calls[j].returned.error
            /\ ret.val.indexed = CountStatus(details, "indexed")
            /\ ( /\ Len(Candidates) = 3
                 /\ FetchSucceeded(Candidates[1].video_id)
                 /\ ~CheckSaid(Candidates[2].video_id)
                 /\ FetchFailed(Candidates[3].video_id) )
               => /\ ret.val.indexed = 1
                  /\ Statuses(details) = <<"indexed", "no_transcript", "failed">>
                  /\ ret.val.total_attempted = 3

\* C5 witness: the report for candidates A (ingested), B (no transcript) and
\* C (ingestion fails).
C5_Witness ==
    /\ BulkDone
    /\ Len(Candidates) = 3
    /\ FetchSucceeded(Candidates[1].video_id)
    /\ ~CheckSaid(Candidates[2].video_id)
    /\ FetchFailed(Candidates[3].video_id)

\* C6 as stated: the failed count of a bulk report is the number of details
\* entries with status failed (a no_transcript candidate is not counted in it).
C6_FailedCountsOnlyFailed ==
    BulkDone => ret.val.failed = CountStatus(ret.val.details, "failed")

\* C6 amended: the report has the fields status, indexed, failed,
\* total_attempted and details and no separate no-transcript count; its failed
\* count is the number of details entries with status failed plus the number
\* with status no_transcript.
C6_FailedCountMerged ==
    BulkDone =>
        /\ DOMAIN ret.val = {"status", "indexed", "failed", "total_attempted", "details"}
        /\ ret.val.failed = CountStatus(ret.val.details, "failed")
                            + CountStatus(ret.val.details, "no_transcript")

\* C6 witness: a report with a failed candidate and a no_transcript candidate.
C6_Witness ==
    /\ BulkDone
    /\ CountStatus(ret.val.details, "failed") >= 1
    /\ CountStatus(ret.val.details, "no_transcript") >= 1

\* C7: total_attempted of a bulk report is the length of the candidate list
\* obtained from discovery.
C7_TotalAttempted ==
    BulkDone => ret.val.total_attempted = Len(Candidates)

\* C7 witness: a report over three candidates of which two were indexed.
C7_Witness ==
    /\ BulkDone
    /\ Len(Candidates) = 3
    /\ ret.val.indexed = 2

NotIndexedSignal == [error |-> "No videos indexed yet. Use index_video first."]

\* C8: semantic_search on an empty store returns the "not indexed yet" dict
\* (never a list) for every query and top_k, and never returns it once a
\* record is stored.
C8_NotIndexedSignal ==
    ret.tool = "semantic_search" =>
        /\ Len(pre.video_store) = 0 => (ret.kind = "dict" /\ ret.val = NotIndexedSignal)
        /\ Len(pre.video_store) > 0 => ~(ret.kind = "dict" /\ ret.val = NotIndexedSignal)

\* C8 witness: semantic_search with top_k 0 on the empty store.
C8_Witness ==
    /\ ret.tool = "semantic_search"
    /\ Len(pre.video_store) = 0
    /\ ret.args.top_k = 0
    /\ IsError(ret)

\* the query was encoded
EncoderWorked == Len(calls) >= 1 /\ calls[1].call = "encode" /\ calls[1].outcome = "ok"

\* C9 as stated: on a store of n > 0 records a search with top_k = k >= 0
\* returns a list of exactly Min(k, n) results in non-increasing similarity
\* (non-decreasing distance).
C9_SearchReturnsMinKN ==
    ( /\ ret.tool = "semantic_search"
      /\ Len(pre.video_store) > 0
      /\ ret.args.top_k >= 0
      /\ EncoderWorked )
    => /\ ret.kind = "list"
       /\ Len(ret.val) = Min(ret.args.top_k, Len(pre.video_store))
       /\ \A a, b \in 1 .. Len(ret.val) :
            a < b => ret.val[a].similarity_score >= ret.val[b].similarity_score

\* the same for top_k >= 1, which the code satisfies
C9_SearchReturnsMinKN_Positive ==
    ( /\ ret.tool = "semantic_search"
      /\ Len(pre.video_store) > 0
      /\ ret.args.top_k >= 1
      /\ EncoderWorked )
    => /\ ret.kind = "list"
       /\ Len(ret.val) = Min(ret.args.top_k, Len(pre.video_store))
       /\ \A a, b \in 1 .. Len(ret.val) :
            a < b => ret.val[a].similarity_score >= ret.val[b].similarity_score

\* C10: after index_video(T, x) on the empty index, semantic_search(x) (top_k
\* left at its default, or any top_k >= 1) returns a list whose first result
\* has title T and similarity_score 100.0.
C10_ExactMatchScores100 ==
    ( /\ ret.tool = "semantic_search"
      /\ Len(video_store) = 1
      /\ ~("url" \in DOMAIN video_store[1])
      /\ ret.args.query = video_store[1].transcript
      /\ ret.args.top_k >= 1
      /\ EncoderWorked )
    => /\ ret.kind = "list"
       /\ Len(ret.val) >= 1
       /\ ret.val[1].title = video_store[1].title
       /\ ret.val[1].similarity_score = ScoreScale

\* C10 witness: index_video("T", "hello world") then
\* semantic_search("hello world") with the default top_k.
C10_Witness ==
    /\ ret.tool = "semantic_search"
    /\ ret.kind = "list"
    /\ Len(video_store) = 1
    /\ video_store[1] = [title |-> "T", transcript |-> "hello world", video_id |-> None]
    /\ ret.args.query = "hello world"
    /\ ret.args.top_k = DefaultTopK

\* number of entries with status indexed among the first k details
IndexedUpTo(details, k) ==
    Cardinality({ i \in 1 .. k : details[i].status = "indexed" })

\* the record and the vector at 0-based id hold this video's ingestion
StoredAt(id, video_id) ==
    /\ id < Len(video_store) /\ id < Len(index)
    /\ StoreAt(video_store, id).video_id = video_id
    /\ index[id + 1] = Encode(StoreAt(video_store, id).transcript)

\* C11: the j-th successful append since process start is at id j in the index
\* and in video_store, and a failed ingestion consumes no id.  With n0 entries
\* when a call begins: a successful index_video or fetch_and_index_transcript
\* leaves its record and vector at id n0 and an unsuccessful one leaves n0
\* entries; inside and after a bulk call the k-th candidate reported indexed
\* (counted from 0) is at id n0 + k, whatever failed in between, and the
\* number of entries is n0 plus the number of indexed candidates.
C11_AppendOrder ==
    LET n0 == Len(pre.video_store)
    IN  /\ Len(pre.index) = n0
        /\ (pc = "done" /\ ret.tool = "index_video") =>
              IF ret.kind = "dict"
              THEN /\ Len(video_store) = n0 + 1 /\ Len(index) = n0 + 1
                   /\ StoredAt(n0, ret.args.video_id)
                   /\ StoreAt(video_store, n0).transcript = ret.args.transcript
                   /\ StoreAt(video_store, n0).title = ret.args.title
              ELSE Len(video_store) = n0 /\ Len(index) = n0
        /\ (pc = "done" /\ ret.tool = "fetch_and_index_transcript") =>
              IF IsError(ret)
              THEN Len(video_store) = n0 /\ Len(index) = n0
              ELSE /\ Len(video_store) = n0 + 1 /\ Len(index) = n0 + 1
                   /\ StoredAt(n0, ret.args.video_id)
        /\ InBulk =>
              /\ Len(video_store) = n0 + CountStatus(BulkDetails, "indexed")
              /\ Len(index) = n0 + CountStatus(BulkDetails, "indexed")
              /\ \A i \in 1 .. Len(BulkDetails) :
                    BulkDetails[i].status = "indexed" =>
                        StoredAt(n0 + IndexedUpTo(BulkDetails, i) - 1,
                                 BulkDetails[i].video_id)

\* a bulk call started on a non-empty index has had a failed candidate and then
\* an indexed one, which sits at the id after the entries that were there
C11_Witness ==
    /\ InBulk
    /\ Len(pre.video_store) = 1
    /\ Len(BulkDetails) >= 2
    /\ BulkDetails[1].status = "failed"
    /\ BulkDetails[2].status = "indexed"
    /\ StoredAt(1, BulkDetails[2].video_id)
    /\ index[1] /= index[2]

IsPrefix(s, t) == Len(s) <= Len(t) /\ \A i \in 1 .. Len(s) : s[i] = t[i]

\* C12: the store is append-only.  Whatever a tool call has done so far, every
\* id that existed when the call began still holds the same record and the
\* same vector: the index and video_store of the call's beginning are prefixes
\* of the present ones.
C12_AppendOnly ==
    /\ IsPrefix(pre.index, index)
    /\ IsPrefix(pre.video_store, video_store)

\* a call that began with one entry has added a second, different one
C12_Witness ==
    /\ pc = "done"
    /\ Len(pre.video_store) = 1
    /\ Len(video_store) = 2
    /\ video_store[1] /= video_store[2]
    /\ index[1] /= index[2]

\* a get_video_transcript call has returned
ResolverDone == pc = "done" /\ ret.tool = "get_video_transcript"

\* the world the captioning collaborator was in at the call that has returned
WorldOf == calls[1].world

\* the track carries one of the language codes of the list
InLanguages(track, languages) ==
    \E c \in 1 .. Len(languages) : languages[c] = track.language_code

\* the call named languages, the tracks were listed, and none of them is in
\* one of those languages
RequestedMissing ==
    /\ ResolverDone
    /\ ret.args.video_id /= None
    /\ ret.args.languages /= NoLanguages
    /\ WorldOf.listing = "ok"
    /\ \A j \in 1 .. Len(WorldOf.tracks) :
          ~InLanguages(WorldOf.tracks[j], ret.args.languages)

\* C13 as stated: with an explicit languages list none of whose languages the
\* video has a track in, get_video_transcript fails with the error it has for
\* that case, "No transcript found for video <id> in requested languages", and
\* returns no track's text.
C13_NoneFoundError ==
    RequestedMissing =>
        ret.val = [error |-> "No transcript found for video " \o ret.args.video_id
                             \o " in requested languages"]

\* what the code does in that case: it returns an error, never a transcript,
\* and the error is the catch-all one carrying the collaborator's message
C13_NoFallbackText ==
    RequestedMissing =>
        /\ IsError(ret)
        /\ ~("transcript" \in DOMAIN ret.val)
        /\ ret.val.error = "Failed to get transcript for " \o ret.args.video_id
                            \o ": " \o ExcStr("NoTranscriptFound")

\* the tracks of one kind in "en"
EnTracks(w, generated) ==
    { j \in 1 .. Len(w.tracks) :
        w.tracks[j].language_code = "en" /\ w.tracks[j].is_generated = generated }

\* the tracks the priority names: manually created "en", else generated "en",
\* else the first listed
PreferredTracks(w) ==
    IF EnTracks(w, FALSE) /= {} THEN EnTracks(w, FALSE)
    ELSE IF EnTracks(w, TRUE) /= {} THEN EnTracks(w, TRUE)
    ELSE IF Len(w.tracks) > 0 THEN {1}
    ELSE {}

\* the result carries the text of this track
ReturnsTrack(track) ==
    /\ ~IsError(ret)
    /\ ret.val.transcript = FormatTranscript(track.segments, Len(track.segments))
    /\ ret.val.segments = Len(track.segments)

\* get_video_transcript was called without languages and the tracks were listed
DefaultResolution ==
    /\ ResolverDone
    /\ ret.args.video_id /= None
    /\ ret.args.languages = NoLanguages
    /\ WorldOf.listing = "ok"

CheckDone == pc = "done" /\ ret.tool = "check_transcript_availability"

\* C15: check_transcript_availability never raises.  It returns a dict for every
\* input; when listing the tracks fails (disabled, unavailable) the dict has
\* has_transcripts false and the error message; when listing succeeds, count is
\* the number of tracks listed and has_transcripts is true exactly when
\* count > 0.
C15_AvailabilityNeverRaises ==
    CheckDone =>
        /\ ret.kind = "dict"
        /\ ret.args.video_id /= None =>
              IF WorldOf.listing /= "ok"
              THEN /\ ret.val.has_transcripts = FALSE
                   /\ "error" \in DOMAIN ret.val
                   /\ ret.val.error = ExcStr(WorldOf.listing)
              ELSE /\ ~("error" \in DOMAIN ret.val)
                   /\ ret.val.count = Len(WorldOf.tracks)
                   /\ Len(ret.val.available_transcripts) = ret.val.count
                   /\ ret.val.has_transcripts = (ret.val.count > 0)

\* the check has answered for a video that is unavailable
C15_Witness ==
    /\ CheckDone
    /\ ret.args.video_id /= None
    /\ WorldOf.listing = "VideoUnavailable"
    /\ ret.kind = "dict"
    /\ ret.val.has_transcripts = FALSE
    /\ "error" \in DOMAIN ret.val

\* C16: check_transcript_availability is read-only.  When it has returned
\* (success, upstream failure or missing id) the index and video_store are what
\* they were when it was called, so the state the next tool call starts from,
\* and with it what that call returns, is the one it would have started from
\* without the check.
C16_CheckReadOnly ==
    CheckDone =>
        /\ index = pre.index
        /\ video_store = pre.video_store
        /\ videos = << >> /\ results = << >>
        /\ pos = 0 /\ indexed_count = 0 /\ failed_count = 0

\* the check has returned an upstream failure on an index that holds entries
C16_Witness ==
    /\ CheckDone
    /\ ret.args.video_id /= None
    /\ "error" \in DOMAIN ret.val
    /\ Len(index) >= 1
    /\ Len(video_store) = Len(index)

\* a direct fetch_and_index_transcript call has returned
FetchDone == pc = "done" /\ ret.tool = "fetch_and_index_transcript"

\* the steps of fetch_and_index_transcript in the order of its body
FetchOrder ==
    <<"get_video_details", "get_video_transcript", "encode", "index.add",
      "video_store.append">>

\* C17: fetch_and_index_transcript takes its steps in the order metadata fetch,
\* transcript resolution, encoding, paired append (the steps it took are the
\* first ones of that list); when the metadata fetch fails it returns that
\* error and took no other step: no transcript resolution, no encoding, no
\* change of the index or of video_store.
C17_FetchStepOrder ==
    FetchDone =>
        /\ Len(calls) >= 1 /\ Len(calls) <= Len(FetchOrder)
        /\ \A j \in 1 .. Len(calls) : calls[j].call = FetchOrder[j]
        /\ "error" \in DOMAIN calls[1].returned =>
              /\ Len(calls) = 1
              /\ ret.val = calls[1].returned
              /\ index = pre.index /\ video_store = pre.video_store

\* the metadata fetch failed for a video on a non-empty index
C17_Witness ==
    /\ FetchDone
    /\ Len(pre.index) >= 1
    /\ calls[1].call = "get_video_details"
    /\ "error" \in DOMAIN calls[1].returned
    /\ IsError(ret)

CoreTools ==
    {"index_video", "semantic_search", "fetch_and_index_transcript",
     "bulk_index_channel_videos", "check_transcript_availability",
     "find_videos_with_transcripts"}

\* C19 as stated: every call of a tool of the core surface ends with a
\* structured result (a dict or a list), whatever the input and whichever
\* collaborator, encoder or index call fails; no exception leaves the tool.
C19_NoExceptionEscapes ==
    (pc = "done" /\ ret.tool \in CoreTools) => ret.kind \in {"dict", "list"}

\* what holds: the four tools whose bodies sit in try/except never raise
C19_GuardedToolsReturn ==
    (pc = "done" /\ ret.tool \in CoreTools \ {"index_video", "semantic_search"})
        => ret.kind \in {"dict", "list"}

-----------------------------------------------------------------------------
\* a tool call has begun and has not yet been answered
ToolCallInProgress == pc \in {"appending", "bulk_loop", "done"}

\* the next step of the tool call in progress
ToolCallStep == VideoStoreAppend \/ BulkLoop \/ BulkReturn \/ Respond

\* C21: with the heartbeat thread scheduled fairly, the heartbeat prints its
\* line infinitely often in every behaviour, also in those where a tool call
\* stays forever where it is; a heartbeat step changes neither the index nor
\* video_store nor any other variable of the tools, a tool step changes nothing
\* of the heartbeat, and the next step of a tool call in progress is enabled
\* wherever the heartbeat is.
C21_HeartbeatIndependent ==
    /\ []<>(<<HeartbeatPrint>>_hb)
    /\ [][(hb' /= hb) => (<<index, video_store, ret, calls, pc, videos, pos,
                            indexed_count, failed_count, results, pre>>'
                          = <<index, video_store, ret, calls, pc, videos, pos,
                              indexed_count, failed_count, results, pre>>)]_vars
    /\ [](ToolCallInProgress => ENABLED ToolCallStep)

\* C21 witness: the heartbeat has printed and sleeps while a bulk call is
\* between two candidates.
C21_Witness ==
    /\ hb = "sleep"
    /\ pc = "bulk_loop"
    /\ pos = 1
    /\ Len(videos) = 2

-----------------------------------------------------------------------------
\* the max_videos the bulk call in progress or just finished was given
MaxVideosAsked == calls[1].max_results

\* the candidates the loop has processed so far are the first ones of the list
\* discovery returned, in its order
ProcessedInReturnedOrder ==
    /\ Len(BulkDetails) <= Len(Candidates)
    /\ \A i \in 1 .. Len(BulkDetails) :
          BulkDetails[i].video_id = Candidates[i].video_id

\* C22 as stated: a bulk call processes at most max_videos candidates, in the
\* order discovery returned them, also when discovery returned more than
\* max_videos items.
C22_AtMostMaxVideos ==
    InBulk =>
        /\ Len(BulkDetails) <= MaxVideosAsked
        /\ ProcessedInReturnedOrder

\* What holds of C22: the candidates are processed in the order discovery
\* returned them, and no more than max_videos of them whenever discovery
\* returned no more than max_videos items.
C22_ReturnedOrder ==
    InBulk =>
        /\ ProcessedInReturnedOrder
        /\ Len(Candidates) <= MaxVideosAsked => Len(BulkDetails) <= MaxVideosAsked

\* C22 witness: discovery returned one item more than max_videos and the
\* report has an entry for it.
C22_Witness ==
    /\ BulkDone
    /\ Len(Candidates) = MaxVideosAsked + 1
    /\ Len(ret.val.details) = MaxVideosAsked + 1
    /\ ret.val.total_attempted > ret.args.max_videos

-----------------------------------------------------------------------------
\* two distances have been scored
Scored == ret.tool = "similarity_score" /\ ret.kind = "scores"

\* the largest distance, in units of 1 / DistUnit, whose quotient
\* 100 / (1 + distance) is at least 99.995
MaxRoundedTo100 == DistUnit \div (2 * ScoreScale - 1)

\* C23 as stated: the score is 100.0 exactly when the distance is 0, it does
\* not increase when the distance increases, and it lies in 0 .. 100.
C23_ScoreExactly100AtZero ==
    Scored =>
        /\ \A j \in 1 .. 2 : (ret.val[j] = ScoreScale) <=> (ret.args[j] = 0)
        /\ ret.args[1] <= ret.args[2] => ret.val[1] >= ret.val[2]
        /\ \A j \in 1 .. 2 : ret.val[j] >= 0 /\ ret.val[j] <= ScoreScale

\* C23 amended: the score is 100.0 at distance 0 and at every distance so
\* small that 100 / (1 + distance) rounds to 100.00 (distance <= 1/19999), and
\* at no other; it does not increase when the distance increases, and it lies
\* in 0 .. 100.
C23_ScoreRounded ==
    Scored =>
        /\ \A j \in 1 .. 2 :
              /\ ret.args[j] = 0 => ret.val[j] = ScoreScale
              /\ (ret.val[j] = ScoreScale) <=> (ret.args[j] <= MaxRoundedTo100)
        /\ ret.args[1] <= ret.args[2] => ret.val[1] >= ret.val[2]
        /\ \A j \in 1 .. 2 : ret.val[j] >= 0 /\ ret.val[j] <= ScoreScale

\* C23 witness: distance 0.00005 scores 100.0 and distance 0.00006 scores
\* 99.99.
C23_Witness ==
    /\ Scored
    /\ ret.args = <<5, 6>>
    /\ ret.val = <<ScoreScale, ScoreScale - 1>>

-----------------------------------------------------------------------------
\* semantic_search got neighbours from the index and returned its list
SearchReturned ==
    /\ pc = "done"
    /\ ret.tool = "semantic_search"
    /\ ret.kind = "list"
    /\ Len(calls) = 2
    /\ calls[2].call = "index.search"
    /\ calls[2].k > 0

\* the ids index.search returned, in its order
Neighbours == calls[2].outcome

\* the distance of the j-th neighbour from the query
NeighbourDistance(j) == DistOf(index, Encode(ret.args.query), Neighbours[j])

\* C24: the list semantic_search returns has one result per neighbour the
\* index returned, in the index's order, which is nearest first (whatever
\* order the index gives to equal distances, lower id first included); result
\* j carries the title, video_id and url of the video_store record whose id is
\* the j-th neighbour's, and the stored transcript of that record if and only
\* if return_full_transcript is true.
C24_ResultsFollowIndexOrder ==
    SearchReturned =>
        /\ Len(ret.val) = Len(Neighbours)
        /\ \A j \in 1 .. Len(Neighbours) :
              /\ Neighbours[j] \in 0 .. (Len(video_store) - 1)
              /\ LET rec == video_store[Neighbours[j] + 1]
                 IN  /\ ret.val[j].title = rec.title
                     /\ ret.val[j].video_id = rec.video_id
                     /\ ret.val[j].url = IF "url" \in DOMAIN rec THEN rec.url ELSE None
                     /\ ("transcript" \in DOMAIN ret.val[j])
                            <=> ret.args.return_full_transcript
                     /\ "transcript" \in DOMAIN ret.val[j]
                            => ret.val[j].transcript = rec.transcript
        /\ \A a, b \in 1 .. Len(Neighbours) :
              a < b => /\ NeighbourDistance(a) <= NeighbourDistance(b)
                       /\ ret.val[a].similarity_score >= ret.val[b].similarity_score

\* C24 witness: a record of index_video and a record of
\* fetch_and_index_transcript at the same distance from the query, returned
\* lower id first, with their transcripts.
C24_Witness ==
    /\ SearchReturned
    /\ Neighbours = <<0, 1>>
    /\ NeighbourDistance(1) = NeighbourDistance(2)
    /\ ret.args.return_full_transcript
    /\ ret.val[1].title = "T"
    /\ ret.val[1].url = None
    /\ ret.val[2].title = VideoTitle("A")
    /\ ret.val[2].url = VideoUrl("A")

-----------------------------------------------------------------------------
\* fetch_and_index_transcript, called as a tool, returned without an error
FetchIndexed == FetchDone /\ ~IsError(ret)

\* C25: after a successful fetch_and_index_transcript the index and video_store
\* are what they were when the call began plus one entry each; the new record
\* holds the requested video id, the title and url the metadata fetch returned
\* and the transcript text the resolution returned; the result has status
\* indexed, that title, and the length of the stored transcript as
\* transcript_length.
C25_SuccessfulFetch ==
    FetchIndexed =>
        /\ Len(index) = Len(pre.index) + 1
        /\ Len(video_store) = Len(pre.video_store) + 1
        /\ IsPrefix(pre.index, index)
        /\ IsPrefix(pre.video_store, video_store)
        /\ LET record == video_store[Len(video_store)]
               video_details == calls[1].returned
               transcript_result == calls[2].returned
           IN  /\ calls[1].call = "get_video_details"
               /\ calls[2].call = "get_video_transcript"
               /\ record.video_id = ret.args.video_id
               /\ record.title = video_details.title
               /\ record.url = video_details.url
               /\ record.transcript = transcript_result.transcript
               /\ ret.val.status = "indexed"
               /\ ret.val.title = video_details.title
               /\ ret.val.transcript_length = Len(record.transcript)

\* C25 witness: video A is fetched and indexed as the second entry; its stored
\* transcript has 11 characters and came in 2 segments.
C25_Witness ==
    /\ FetchIndexed
    /\ Len(pre.index) = 1
    /\ video_store[2].video_id = "A"
    /\ video_store[2].transcript = "hello\nworld"
    /\ ret.val.transcript_length = 11
    /\ ret.val.segments = 2

-----------------------------------------------------------------------------
\* the ids, among those assigned since the bulk call began, whose record holds
\* this video
BulkIdsOf(video_id) ==
    { id \in Len(pre.video_store) .. (Len(video_store) - 1) :
          StoredAt(id, video_id) }

\* C26: inside and after a bulk call every candidate reported indexed has
\* exactly one id among those assigned since the call began; of two indexed
\* candidates the earlier one has the smaller id; and the id is fixed by the
\* number of entries at the start and the outcomes of the candidates before
\* it (start + number of indexed candidates before it), so the same list with
\* the same outcomes from the same start gives the same assignment.
C26_IdsInCandidateOrder ==
    InBulk =>
        /\ \A i \in 1 .. Len(BulkDetails) :
              BulkDetails[i].status = "indexed" =>
                  BulkIdsOf(BulkDetails[i].video_id)
                      = { Len(pre.index) + IndexedUpTo(BulkDetails, i - 1) }
        /\ \A i, j \in 1 .. Len(BulkDetails) :
              ( /\ i < j
                /\ BulkDetails[i].status = "indexed"
                /\ BulkDetails[j].status = "indexed" ) =>
                  \A a \in BulkIdsOf(BulkDetails[i].video_id) :
                      \A b \in BulkIdsOf(BulkDetails[j].video_id) : a < b

\* C26 witness: of three candidates the first and the third were indexed, the
\* second failed, on an empty index: A is at id 0 and C at id 1.
C26_Witness ==
    /\ BulkDone
    /\ Len(pre.index) = 0
    /\ Statuses(ret.val.details) = <<"indexed", "failed", "indexed">>
    /\ BulkIdsOf("A") = {0}
    /\ BulkIdsOf("C") = {1}

-----------------------------------------------------------------------------
\* a bulk_index_channel_videos call of server_2 has returned its report
BulkDone_server_2 ==
    /\ pc = "done"
    /\ ret.tool = "bulk_index_channel_videos"
    /\ ret.kind = "dict"
    /\ "status" \in DOMAIN ret.val
    /\ ~("details" \in DOMAIN ret.val)

\* C27: in the report of a finished bulk call indexed + failed is
\* total_attempted and the number of details entries (in server_2, whose
\* report has no details, indexed + failed is total_attempted), and the index
\* and video_store hold exactly `indexed` entries more than when the call
\* began.
C27_ReportAddsUp ==
    /\ BulkDone =>
          /\ ret.val.indexed + ret.val.failed = ret.val.total_attempted
          /\ ret.val.total_attempted = Len(ret.val.details)
          /\ Len(index) = Len(pre.index) + ret.val.indexed
          /\ Len(video_store) = Len(pre.video_store) + ret.val.indexed
    /\ BulkDone_server_2 =>
          /\ ret.val.indexed + ret.val.failed = ret.val.total_attempted
          /\ Len(index) = Len(pre.index) + ret.val.indexed
          /\ Len(video_store) = Len(pre.video_store) + ret.val.indexed

\* C27 witness: a report of server_3 with an indexed, a failed and a
\* no_transcript candidate.
C27_Witness ==
    /\ BulkDone
    /\ ret.val.indexed = 1
    /\ ret.val.failed = 2
    /\ CountStatus(ret.val.details, "no_transcript") = 1
    /\ Len(index) = Len(pre.index) + 1

\* a report of server_2 over three candidates of which two were indexed
C27_Witness_server_2 ==
    /\ BulkDone_server_2
    /\ ret.val.indexed = 2
    /\ ret.val.failed = 1
    /\ Len(index) = Len(pre.index) + 2

-----------------------------------------------------------------------------
\* bulk_index_channel_videos of server_3 has returned after a discovery call
\* that returned a dict with "error"
BulkDiscoveryFailed ==
    /\ pc = "done"
    /\ ret.tool = "bulk_index_channel_videos"
    /\ "max_videos" \in DOMAIN ret.args
    /\ Len(calls) >= 1
    /\ calls[1].call = "get_latest_videos_from_channel"
    /\ calls[1].returned.kind = "dict"
    /\ "error" \in DOMAIN calls[1].returned.val

\* C28: when discovery returned an error, bulk_index_channel_videos returns
\* that very dict and no report, the discovery call is the only call it made
\* (no availability check, no ingestion step), and the index and video_store
\* are what they were when the call began; a call that is in its loop or has
\* returned a report got a list from discovery.
C28_DiscoveryErrorReturned ==
    /\ BulkDiscoveryFailed =>
          /\ ret.kind = "dict"
          /\ ret.val = calls[1].returned.val
          /\ IsError(ret)
          /\ ~("status" \in DOMAIN ret.val) /\ ~("details" \in DOMAIN ret.val)
          /\ Len(calls) = 1
          /\ index = pre.index
          /\ video_store = pre.video_store
    /\ InBulk => calls[1].returned.kind = "list"

\* C28 witness: discovery failed for a bulk call on an index with one entry.
C28_Witness ==
    /\ BulkDiscoveryFailed
    /\ ret.val = [error |-> "HttpError"]
    /\ Len(pre.index) = 1
    /\ Len(index) = 1

-----------------------------------------------------------------------------
(* get_video_transcript without languages: failures of fetching a tier *)

\* the track a tier finds: the first one of its kind in "en", 0 if none
TierTrack(w, generated) ==
    IF EnTracks(w, generated) = {} THEN 0
    ELSE CHOOSE j \in EnTracks(w, generated) : \A x \in EnTracks(w, generated) : j <= x

\* the tier found a track and the fetch of its text succeeded
TierYields(w, generated) ==
    /\ TierTrack(w, generated) /= 0
    /\ w.tracks[TierTrack(w, generated)].fetch = "ok"

\* the catch-all error carrying the message of a failed fetch
FetchFailedError ==
    [error |-> "Failed to get transcript for " \o ret.args.video_id \o ": "
               \o ExcStr("CouldNotRetrieveTranscript")]

\* C29: in get_video_transcript without languages a tier whose fetch raises
\* counts as an absent tier: the manually created "en" track is returned if its
\* fetch succeeds, else the generated "en" track if its fetch succeeds, else the
\* first listed track; the call returns an error only when there is no track,
\* when the fetch of the first listed track raises, or when listing the tracks
\* failed.
C29_FetchFailureFallsThrough ==
    /\ DefaultResolution =>
          IF TierYields(WorldOf, FALSE)
          THEN ReturnsTrack(WorldOf.tracks[TierTrack(WorldOf, FALSE)])
          ELSE IF TierYields(WorldOf, TRUE)
          THEN ReturnsTrack(WorldOf.tracks[TierTrack(WorldOf, TRUE)])
          ELSE IF Len(WorldOf.tracks) = 0
          THEN ret.val = [error |-> "No transcripts available for video "
                                    \o ret.args.video_id]
          ELSE IF WorldOf.tracks[1].fetch = "ok"
          THEN ReturnsTrack(WorldOf.tracks[1])
          ELSE ret.val = FetchFailedError
    /\ (/\ ResolverDone
        /\ ret.args.video_id /= None
        /\ ret.args.languages = NoLanguages
        /\ WorldOf.listing /= "ok") => IsError(ret)

\* the manually created "en" track is listed and its fetch raises, the
\* generated "en" track is readable: the text of the generated track is returned
C29_Witness ==
    /\ DefaultResolution
    /\ TierTrack(WorldOf, FALSE) = 1
    /\ WorldOf.tracks[1].fetch = "raises"
    /\ TierTrack(WorldOf, TRUE) = 2
    /\ ReturnsTrack(WorldOf.tracks[2])
    /\ ret.val.transcript = "python\nbasics"

\* both "en" tiers fail (the generated one raises) and the first listed track,
\* in another language, is returned
C29_Witness_FirstListed ==
    /\ DefaultResolution
    /\ TierTrack(WorldOf, FALSE) = 0
    /\ TierTrack(WorldOf, TRUE) = 2
    /\ WorldOf.tracks[2].fetch = "raises"
    /\ ReturnsTrack(WorldOf.tracks[1])

\* the only track is the manually created "en" one and its fetch raises: the
\* failure of the last tier is the error returned
C29_Witness_LastTierFails ==
    /\ DefaultResolution
    /\ Len(WorldOf.tracks) = 1
    /\ TierTrack(WorldOf, FALSE) = 1
    /\ ret.val = FetchFailedError

-----------------------------------------------------------------------------
(* bulk_index_channel_videos: termination *)

\* every call a loop iteration makes returns, so an iteration that can be taken
\* is taken, and so is the return after the last one; nothing obliges a client
\* to start a call
SpecBulkFair == Init /\ [][Next]_vars /\ WF_pos(BulkLoop) /\ WF_pc(BulkReturn)

\* the candidate was checked for transcripts exactly `checks` times and handed
\* to fetch_and_index_transcript at most once
ProcessedOnce(video_id, checks) ==
    /\ Cardinality(LogOf("check_transcript_availability", video_id)) = checks
    /\ Cardinality(LogOf("fetch_and_index_transcript", video_id)) <= 1

\* C30: with a finite candidate list and collaborators whose calls all return,
\* bulk_index_channel_videos eventually returns its report; by then every
\* candidate has been checked for transcripts exactly once and handed to
\* fetch_and_index_transcript at most once, and in the loop no candidate is
\* checked or fetched a second time.
C30_BulkTerminates ==
    /\ (pc = "bulk_loop") ~> BulkDone
    /\ [](BulkDone =>
            /\ Len(ret.val.details) = Len(Candidates)
            /\ \A i \in 1 .. Len(Candidates) :
                  ProcessedOnce(Candidates[i].video_id, 1))
    /\ [](pc = "bulk_loop" =>
            \A i \in 1 .. Len(Candidates) :
                ProcessedOnce(Candidates[i].video_id, IF i <= pos THEN 1 ELSE 0))

\* a report over the largest candidate list with one candidate ingested, one
\* whose ingestion failed, the others skipped
C30_Witness ==
    /\ BulkDone
    /\ Len(Candidates) = MaxVideos
    /\ ret.val.indexed >= 1
    /\ ret.val.failed >= 1
    /\ \A i \in 1 .. Len(Candidates) : ProcessedOnce(Candidates[i].video_id, 1)
    /\ \E i \in 1 .. Len(Candidates) :
          LogOf("fetch_and_index_transcript", Candidates[i].video_id) /= {}

====
